---------------------------- MODULE Spec2Model ----------------------------
(***************************************************************************)
(* Guestbook web application (Tornado + PostgreSQL).                       *)
(*                                                                         *)
(* The model follows src/guestbook.py and src/main.py: the "entry" table   *)
(* behind EntryRepository, the router of main(), and the request handlers  *)
(* as coroutines that give up control at every await.  A handler's code    *)
(* between two awaits is one action.  GuestbookAPIHandler is imported by   *)
(* main.py and by the tests but is not part of the sources; it is modelled *)
(* from the specification (sections 4, 6 and 7).  The table's column       *)
(* defaults (id, posted) are not in the sources either and follow the      *)
(* specification's data model (section 3).                                 *)
(*                                                                         *)
(* Database availability: the INSERT of add_entry may fail (constraint     *)
(* violation or other error, spec section 4); a failed statement leaves    *)
(* the table as it was.  The two SELECTs are modelled on a database that   *)
(* answers.                                                                *)
(***************************************************************************)
EXTENDS Integers, Sequences, FiniteSets, TLC

(***************************************************************************)
(* Bounds of the model.                                                    *)
(***************************************************************************)
\* requests in flight at once (Spec)
MaxInFlight == 2
\* rows the table may hold under Spec (concurrent requests)
MaxStore == 2
\* rows the table may hold under SpecSeq (one request at a time)
MaxSeqStore == 6
\* largest server timestamp
MaxClock == 2
\* longest value of the page query argument, in characters
MaxArgLen == 2
\* largest page a JSON API client asks for
MaxApiPage == 2
\* largest page asked of get_entries under SpecRepo
MaxPage == 3

(***************************************************************************)
(* Program constants.                                                      *)
(***************************************************************************)
MAX_ENTRIES_PER_PAGE == 5

BAD_REQUEST == 400
CREATED == 201
OK == 200
FOUND == 302
MOVED_PERMANENTLY == 301
METHOD_NOT_ALLOWED == 405
INTERNAL_SERVER_ERROR == 500

(***************************************************************************)
(* Inputs.                                                                 *)
(***************************************************************************)
\* characters a page argument is made of: digits, a sign, a non-digit
Digits == {"0", "1", "2"}
Chars == Digits \cup {"-", "x"}

RECURSIVE StringsUpTo(_)
StringsUpTo(n) ==
    IF n = 0 THEN {<<>>}
    ELSE LET shorter == StringsUpTo(n - 1)
         IN  shorter \cup {Append(s, c) : s \in {t \in shorter : Len(t) = n - 1}, c \in Chars}

\* the values of the "page" key of the query string: absent, or given once
Queries == {<<>>} \cup {<<s>> : s \in StringsUpTo(MaxArgLen)}

Fields == {"name", "email", "message"}
FieldValues == [name |-> {"Ann", "Bob"}, email |-> {"ann@example.org"}, message |-> {"Good"}]
AllValues == UNION {FieldValues[f] : f \in Fields}

\* a request body as decoded arguments: any subset of the fields, each with a value
Bodies ==
    UNION {{b \in [D -> AllValues] : \A f \in D : b[f] \in FieldValues[f]} : D \in SUBSET Fields}

NoBody == [f \in {} |-> ""]

Min(a, b) == IF a < b THEN a ELSE b

VARIABLES
    store,   \* the rows of table "entry", in insertion order
    clock,   \* the database server's current timestamp
    reqs,    \* per connection slot: the request being handled and its handler's position
    returned \* SpecRepo: the page just asked of get_entries and the list it returned

vars == <<store, clock, reqs, returned>>

Slots == 1 .. MaxInFlight

(***************************************************************************)
(* Entry and EntryRepository.                                              *)
(***************************************************************************)
Entry(id, name, email, message, posted) ==
    [id |-> id, name |-> name, email |-> email, message |-> message, posted |-> posted]

from_record(rec) == Entry(rec.id, rec.name, rec.email, rec.message, rec.posted)

\* column defaults of table "entry": id generated by storage, posted assigned by the server
NextId(rows) == Len(rows) + 1

\* the server's timestamp at an insert: time may or may not have advanced since the last one
Now(t) == t .. Min(t + 1, MaxClock)

\* mutation: the INSERT overwrites the row of the same email instead of adding one
add_entry_upsert(rows, name, email, message, now) ==
    IF \E i \in 1 .. Len(rows) : rows[i].email = email
    THEN LET i == CHOOSE k \in 1 .. Len(rows) : rows[k].email = email
         IN  [rows EXCEPT ![i] = [@ EXCEPT !.name = name, !.message = message, !.posted = now]]
    ELSE Append(rows, [id |-> NextId(rows), name |-> name, email |-> email,
                       message |-> message, posted |-> now])

\* INSERT INTO "entry" ("name", "email", "message") VALUES ($1, $2, $3)
add_entry(rows, name, email, message, now) ==
    Append(rows, [id |-> NextId(rows), name |-> name, email |-> email,
                  message |-> message, posted |-> now])

\* mutation: count(DISTINCT "name") in place of count(*)
count_entries_distinct_names(rows) == Cardinality({rows[i].name : i \in 1 .. Len(rows)})

\* SELECT count(*) AS total_entries FROM "entry"
count_entries(rows) == Len(rows)

RowSet(rows) == {rows[i] : i \in 1 .. Len(rows)}

\* mutation: ORDER BY posted ASC
RECURSIVE OrderByPostedAsc(_)
OrderByPostedAsc(S) ==
    IF S = {} THEN {<<>>}
    ELSE LET oldest == {e \in S : \A o \in S : e.posted <= o.posted}
         IN  UNION {{<<e>> \o rest : rest \in OrderByPostedAsc(S \ {e})} : e \in oldest}

\* ORDER BY posted DESC: every order of the rows in which posted never increases.
\* Rows with equal posted come in any order: the query names no further sort key.
RECURSIVE OrderByPostedDesc(_)
OrderByPostedDesc(S) ==
    IF S = {} THEN {<<>>}
    ELSE LET newest == {e \in S : \A o \in S : e.posted >= o.posted}
         IN  UNION {{<<e>> \o rest : rest \in OrderByPostedDesc(S \ {e})} : e \in newest}

\* LIMIT $1 OFFSET $2
LimitOffset(rows, limit, offset) ==
    SubSeq(rows, offset + 1, Min(offset + limit, Len(rows)))

\* mutation: OFFSET page * MAX_ENTRIES_PER_PAGE
get_entries_offset_by_page(rows, page) ==
    {[i \in 1 .. Len(r) |-> from_record(r[i])] :
        r \in {LimitOffset(o, MAX_ENTRIES_PER_PAGE, page * MAX_ENTRIES_PER_PAGE) :
                  o \in OrderByPostedDesc(RowSet(rows))}}

\* the lists get_entries(page) may return for the table's rows
get_entries(rows, page) ==
    {[i \in 1 .. Len(r) |-> from_record(r[i])] :
        r \in {LimitOffset(o, MAX_ENTRIES_PER_PAGE, (page - 1) * MAX_ENTRIES_PER_PAGE) :
                  o \in OrderByPostedDesc(RowSet(rows))}}

(***************************************************************************)
(* Request decoding.                                                       *)
(***************************************************************************)
DigitValue(c) == CASE c = "0" -> 0 [] c = "1" -> 1 [] c = "2" -> 2 [] OTHER -> 0

RECURSIVE DecimalValue(_)
DecimalValue(s) ==
    IF s = <<>> THEN 0
    ELSE DecimalValue(SubSeq(s, 1, Len(s) - 1)) * 10 + DigitValue(s[Len(s)])

AllDigits(s) == s # <<>> /\ \A i \in 1 .. Len(s) : s[i] \in Digits

\* int(text): an optional sign and at least one digit, else ValueError
ParseInt(s) ==
    IF AllDigits(s) THEN [ok |-> TRUE, value |-> DecimalValue(s)]
    ELSE IF s # <<>> /\ s[1] = "-" /\ AllDigits(Tail(s))
         THEN [ok |-> TRUE, value |-> 0 - DecimalValue(Tail(s))]
         ELSE [ok |-> FALSE, value |-> 0]

\* RequestHandler.get_query_argument(name, default): the last value given, else the default
get_query_argument(query, default) ==
    IF query = <<>> THEN default ELSE query[Len(query)]

\* RequestHandler.get_body_argument(name) without default: MissingArgumentError (400) if absent
HasArguments(body) == Fields \subseteq DOMAIN body

(***************************************************************************)
(* Routing (main).                                                         *)
(***************************************************************************)
Paths == {"/", "/guestbook", "/api/v1/entries"}

\* mutation: the API route is missing, its path falls to the redirect
Route_without_api(path) ==
    CASE path = "/guestbook" -> "GuestbookHandler"
      [] OTHER -> "RedirectHandler"

Route(path) ==
    CASE path = "/" -> "RedirectHandler"
      [] path = "/guestbook" -> "GuestbookHandler"
      [] path = "/api/v1/entries" -> "GuestbookAPIHandler"

RoutedTo(handler) == {path \in Paths : Route(path) = handler}

(***************************************************************************)
(* Requests.  A slot holds the request, the handler's position (pc), its   *)
(* locals (page, total_entries, entries: also what the response is         *)
(* rendered from) and, once pc = "done", the response.                     *)
(***************************************************************************)
Idle ==
    [path |-> "", method |-> "", query |-> <<>>, body |-> NoBody, pc |-> "idle",
     page |-> 0, total_entries |-> -1, entries |-> <<>>,
     status |-> 0, location |-> "", content_type |-> ""]

Request(path, method, query, body) ==
    [Idle EXCEPT !.path = path, !.method = method, !.query = query, !.body = body]

Respond(r, status, location, content_type) ==
    [r EXCEPT !.pc = "done", !.status = status, !.location = location,
              !.content_type = content_type]

TEXT_HTML == "text/html; charset=UTF-8"
APPLICATION_JSON == "application/json; charset=UTF-8"

Handles(r, handler, method) ==
    r.pc # "idle" /\ Route(r.path) = handler /\ r.method = method

\* no get_entries call is returning
NoCall == [page |-> 0, entries |-> <<>>]

Init ==
    /\ store = <<>>
    /\ clock = 1
    /\ reqs = [s \in Slots |-> Idle]
    /\ returned = NoCall

(***************************************************************************)
(* RedirectHandler for "/": GET redirects to /guestbook.                   *)
(***************************************************************************)
RedirectHandler_any(r) ==
    IF r.method = "GET"
    THEN Respond(r, MOVED_PERMANENTLY, "/guestbook", TEXT_HTML)
    ELSE Respond(r, METHOD_NOT_ALLOWED, "", TEXT_HTML)

RootRequest(s) ==
    /\ reqs[s].pc = "idle"
    /\ \E path \in RoutedTo("RedirectHandler"), method \in {"GET", "POST"} :
          \E body \in IF method = "POST" THEN Bodies ELSE {NoBody} :
             reqs' = [reqs EXCEPT ![s] = RedirectHandler_any(Request(path, method, <<>>, body))]
    /\ UNCHANGED <<store, clock>>

(***************************************************************************)
(* GuestbookHandler.get                                                    *)
(***************************************************************************)
\* mutation: the check is page < 0
GuestbookHandler_get_page_zero_allowed(r) ==
    LET parsed == ParseInt(get_query_argument(r.query, <<"1">>))
    IN  IF ~parsed.ok
        THEN Respond(r, INTERNAL_SERVER_ERROR, "", TEXT_HTML)
        ELSE IF parsed.value < 0
             THEN Respond(r, BAD_REQUEST, "", TEXT_HTML)
             ELSE [r EXCEPT !.pc = "count_entries", !.page = parsed.value]

\* up to the first await: read and check the page argument
GuestbookHandler_get_page(r) ==
    LET parsed == ParseInt(get_query_argument(r.query, <<"1">>))
    IN  IF ~parsed.ok
        THEN Respond(r, INTERNAL_SERVER_ERROR, "", TEXT_HTML)
        ELSE IF parsed.value < 1
             THEN Respond(r, BAD_REQUEST, "", TEXT_HTML)
             ELSE [r EXCEPT !.pc = "count_entries", !.page = parsed.value]

GuestbookGet(s) ==
    /\ reqs[s].pc = "idle"
    /\ \E path \in RoutedTo("GuestbookHandler"), query \in Queries :
          reqs' = [reqs EXCEPT ![s] =
                      GuestbookHandler_get_page(Request(path, "GET", query, NoBody))]
    /\ UNCHANGED <<store, clock>>

\* total_entries = await self.__repo.count_entries()
GuestbookGetCount(s) ==
    /\ Handles(reqs[s], "GuestbookHandler", "GET")
    /\ reqs[s].pc = "count_entries"
    /\ reqs' = [reqs EXCEPT ![s] = [@ EXCEPT !.total_entries = count_entries(store),
                                             !.pc = "get_entries"]]
    /\ UNCHANGED <<store, clock>>

\* entries = await self.__repo.get_entries(page), then self.render('guestbook.html',
\* entries, page, total_entries, MAX_ENTRIES_PER_PAGE): rendering reads only the
\* handler's locals, so it is part of the step that resumes the handler
GuestbookGetEntries(s) ==
    /\ Handles(reqs[s], "GuestbookHandler", "GET")
    /\ reqs[s].pc = "get_entries"
    /\ \E entries \in get_entries(store, reqs[s].page) :
          reqs' = [reqs EXCEPT ![s] = Respond([@ EXCEPT !.entries = entries], OK, "", TEXT_HTML)]
    /\ UNCHANGED <<store, clock>>

(***************************************************************************)
(* GuestbookHandler.post                                                   *)
(***************************************************************************)
\* mutation: add_entry is not awaited, the redirect goes out at once
GuestbookHandler_post_not_awaited(r) ==
    IF HasArguments(r.body)
    THEN Respond(r, FOUND, "/guestbook", TEXT_HTML)
    ELSE Respond(r, BAD_REQUEST, "", TEXT_HTML)

\* up to the await: the three get_body_argument calls
GuestbookHandler_post_arguments(r) ==
    IF HasArguments(r.body)
    THEN [r EXCEPT !.pc = "add_entry"]
    ELSE Respond(r, BAD_REQUEST, "", TEXT_HTML)

GuestbookPost(s) ==
    /\ reqs[s].pc = "idle"
    /\ \E path \in RoutedTo("GuestbookHandler"), body \in Bodies :
          reqs' = [reqs EXCEPT ![s] =
                      GuestbookHandler_post_arguments(Request(path, "POST", <<>>, body))]
    /\ UNCHANGED <<store, clock>>

\* await self.__repo.add_entry(name, email, message): the INSERT runs, or fails
GuestbookPostAddEntry(s, cap) ==
    /\ Handles(reqs[s], "GuestbookHandler", "POST")
    /\ reqs[s].pc = "add_entry"
    /\ \E inserted \in BOOLEAN :
          IF inserted
          THEN /\ Len(store) < cap
               /\ \E now \in Now(clock) :
                     /\ store' = add_entry(store, reqs[s].body.name, reqs[s].body.email,
                                           reqs[s].body.message, now)
                     /\ clock' = now
               /\ reqs' = [reqs EXCEPT ![s] = [@ EXCEPT !.pc = "redirect"]]
          ELSE /\ reqs' = [reqs EXCEPT ![s] = Respond(@, INTERNAL_SERVER_ERROR, "", TEXT_HTML)]
               /\ UNCHANGED <<store, clock>>

\* self.redirect('/guestbook')
GuestbookPostRedirect(s) ==
    /\ Handles(reqs[s], "GuestbookHandler", "POST")
    /\ reqs[s].pc = "redirect"
    /\ reqs' = [reqs EXCEPT ![s] = Respond(@, FOUND, "/guestbook", TEXT_HTML)]
    /\ UNCHANGED <<store, clock>>

(***************************************************************************)
(* GuestbookAPIHandler (from the specification): POST takes a JSON object  *)
(* with name, email and message and answers 201, or 400 when one is        *)
(* missing; GET answers 200 with the entries of a page and the total       *)
(* count as JSON.                                                          *)
(***************************************************************************)
GuestbookAPIHandler_post_fields(r) ==
    IF HasArguments(r.body)
    THEN [r EXCEPT !.pc = "add_entry"]
    ELSE Respond(r, BAD_REQUEST, "", APPLICATION_JSON)

ApiPost(s) ==
    /\ reqs[s].pc = "idle"
    /\ \E path \in RoutedTo("GuestbookAPIHandler"), body \in Bodies :
          reqs' = [reqs EXCEPT ![s] =
                      GuestbookAPIHandler_post_fields(Request(path, "POST", <<>>, body))]
    /\ UNCHANGED <<store, clock>>

ApiPostAddEntry(s, cap) ==
    /\ Handles(reqs[s], "GuestbookAPIHandler", "POST")
    /\ reqs[s].pc = "add_entry"
    /\ \E inserted \in BOOLEAN :
          IF inserted
          THEN /\ Len(store) < cap
               /\ \E now \in Now(clock) :
                     /\ store' = add_entry(store, reqs[s].body.name, reqs[s].body.email,
                                           reqs[s].body.message, now)
                     /\ clock' = now
               /\ reqs' = [reqs EXCEPT ![s] = [@ EXCEPT !.pc = "created"]]
          ELSE /\ reqs' = [reqs EXCEPT ![s] =
                              Respond(@, INTERNAL_SERVER_ERROR, "", APPLICATION_JSON)]
               /\ UNCHANGED <<store, clock>>

ApiPostCreated(s) ==
    /\ Handles(reqs[s], "GuestbookAPIHandler", "POST")
    /\ reqs[s].pc = "created"
    /\ reqs' = [reqs EXCEPT ![s] = Respond(@, CREATED, "", APPLICATION_JSON)]
    /\ UNCHANGED <<store, clock>>

ApiGet(s) ==
    /\ reqs[s].pc = "idle"
    /\ \E path \in RoutedTo("GuestbookAPIHandler"), page \in 1 .. MaxApiPage :
          reqs' = [reqs EXCEPT ![s] =
                      [Request(path, "GET", <<>>, NoBody)
                          EXCEPT !.pc = "count_entries", !.page = page]]
    /\ UNCHANGED <<store, clock>>

ApiGetCount(s) ==
    /\ Handles(reqs[s], "GuestbookAPIHandler", "GET")
    /\ reqs[s].pc = "count_entries"
    /\ reqs' = [reqs EXCEPT ![s] = [@ EXCEPT !.total_entries = count_entries(store),
                                             !.pc = "get_entries"]]
    /\ UNCHANGED <<store, clock>>

ApiGetEntries(s) ==
    /\ Handles(reqs[s], "GuestbookAPIHandler", "GET")
    /\ reqs[s].pc = "get_entries"
    /\ \E entries \in get_entries(store, reqs[s].page) :
          reqs' = [reqs EXCEPT ![s] =
                      Respond([@ EXCEPT !.entries = entries], OK, "", APPLICATION_JSON)]
    /\ UNCHANGED <<store, clock>>

(***************************************************************************)
(* The client has the response; the slot takes the next request.           *)
(***************************************************************************)
Close(s) ==
    /\ reqs[s].pc = "done"
    /\ reqs' = [reqs EXCEPT ![s] = Idle]
    /\ UNCHANGED <<store, clock>>

Step(s, cap) ==
    \/ RootRequest(s)
    \/ GuestbookGet(s)
    \/ GuestbookGetCount(s)
    \/ GuestbookGetEntries(s)
    \/ GuestbookPost(s)
    \/ GuestbookPostAddEntry(s, cap)
    \/ GuestbookPostRedirect(s)
    \/ ApiPost(s)
    \/ ApiPostAddEntry(s, cap)
    \/ ApiPostCreated(s)
    \/ ApiGet(s)
    \/ ApiGetCount(s)
    \/ ApiGetEntries(s)
    \/ Close(s)

Next == (\E s \in Slots : Step(s, MaxStore)) /\ UNCHANGED returned

Spec == Init /\ [][Next]_vars

\* one request at a time, on a larger table
NextSeq == Step(1, MaxSeqStore) /\ UNCHANGED returned

SpecSeq == Init /\ [][NextSeq]_vars

(***************************************************************************)
(* EntryRepository on its own: add_entry and get_entries called directly,  *)
(* get_entries for every page up to MaxPage on every table up to           *)
(* MaxSeqStore rows.  get_entries orders and cuts by posted alone, so the  *)
(* rows added here carry one fixed submission's texts.  The calls do not   *)
(* overlap: returned holds the value of the call being returned, for the   *)
(* table as it is.                                                         *)
(***************************************************************************)
Submission == CHOOSE b \in Bodies : HasArguments(b)

RepoAddEntry ==
    /\ returned = NoCall
    /\ Len(store) < MaxSeqStore
    /\ \E now \in Now(clock) :
          /\ store' = add_entry(store, Submission.name, Submission.email, Submission.message, now)
          /\ clock' = now
    /\ UNCHANGED <<reqs, returned>>

RepoGetEntries ==
    /\ returned = NoCall
    /\ \E page \in 1 .. MaxPage :
          \E entries \in get_entries(store, page) :
             returned' = [page |-> page, entries |-> entries]
    /\ UNCHANGED <<store, clock, reqs>>

\* the caller has the list
RepoReturn ==
    /\ returned # NoCall
    /\ returned' = NoCall
    /\ UNCHANGED <<store, clock, reqs>>

NextRepo == RepoAddEntry \/ RepoGetEntries \/ RepoReturn

SpecRepo == Init /\ [][NextRepo]_vars

(***************************************************************************)
(* Vocabulary of the properties.                                           *)
(***************************************************************************)
Max(a, b) == IF a > b THEN a ELSE b

IsRequest(r, path, method) == r.pc # "idle" /\ r.path = path /\ r.method = method

LacksField(r) == \E f \in {"name", "email", "message"} : f \notin DOMAIN r.body

SameContent(e, body) ==
    e.name = body.name /\ e.email = body.email /\ e.message = body.message

\* the value of the page argument of a GET /guestbook, as text
PageText(r) == IF r.query = <<>> THEN <<"1">> ELSE r.query[Len(r.query)]

\* number of rows posted after / not before timestamp t
PostedAfter(t) == Cardinality({e \in RowSet(store) : e.posted > t})
PostedNotBefore(t) == Cardinality({e \in RowSet(store) : e.posted >= t})

(***************************************************************************)
(* C1.  A POST to /api/v1/entries whose JSON body lacks one of name,       *)
(* email, message is answered 400, and the request adds no entry: in every *)
(* step, such a request is finished with status 400, and the step in which *)
(* it is handled leaves the table as it was.                               *)
(***************************************************************************)
C1_MissingFieldIs400 ==
    [][\A s \in Slots :
          (IsRequest(reqs'[s], "/api/v1/entries", "POST") /\ LacksField(reqs'[s]))
          => /\ reqs'[s].pc = "done"
             /\ reqs'[s].status = 400
             /\ (reqs'[s] # reqs[s] => store' = store)]_vars

C1_Witness ==
    \E s \in Slots :
        /\ IsRequest(reqs[s], "/api/v1/entries", "POST")
        /\ DOMAIN reqs[s].body = {"message"}
        /\ reqs[s].status = 400

(***************************************************************************)
(* C3.  A GET /guestbook whose page argument is an integer below 1 is      *)
(* answered 400 before any repository call: such a request is never at     *)
(* count_entries or get_entries, and holds no result of either.            *)
(***************************************************************************)
C3_PageBelowOneIs400 ==
    \A s \in Slots :
        (/\ IsRequest(reqs[s], "/guestbook", "GET")
         /\ ParseInt(PageText(reqs[s])).ok
         /\ ParseInt(PageText(reqs[s])).value < 1)
        => /\ reqs[s].pc = "done"
           /\ reqs[s].status = 400
           /\ reqs[s].total_entries = -1
           /\ reqs[s].entries = <<>>

C3_Witness ==
    /\ \E s \in Slots :
          /\ IsRequest(reqs[s], "/guestbook", "GET")
          /\ reqs[s].query = << <<"0">> >>
          /\ reqs[s].status = 400
    /\ \E s \in Slots :
          /\ IsRequest(reqs[s], "/guestbook", "GET")
          /\ reqs[s].query = << <<"-", "1">> >>
          /\ reqs[s].status = 400

(***************************************************************************)
(* C4.  Every value of the page argument that is not a valid page number,  *)
(* non-numeric text and the empty string included, makes GET /guestbook    *)
(* answer with a 4xx status, never 5xx.                                    *)
(***************************************************************************)
C4_InvalidPageIs4xx ==
    \A s \in Slots :
        (/\ IsRequest(reqs[s], "/guestbook", "GET")
         /\ \/ ~ParseInt(PageText(reqs[s])).ok
            \/ ParseInt(PageText(reqs[s])).value < 1)
        => /\ reqs[s].pc = "done"
           /\ reqs[s].status >= 400
           /\ reqs[s].status < 500

(***************************************************************************)
(* C6.  Entries are never updated or deleted: every step keeps every row   *)
(* of the table as it is, at its place, so the row count never decreases.  *)
(***************************************************************************)
C6_EntriesImmutable ==
    [][/\ Len(store') >= Len(store)
       /\ \A i \in 1 .. Len(store) : store'[i] = store[i]]_vars

C6_Witness ==
    /\ Len(store) = 2
    /\ store[1].name # store[2].name
    /\ \E s \in Slots : reqs[s].pc = "done" /\ reqs[s].status = 200 /\ Len(reqs[s].entries) = 2

(***************************************************************************)
(* C8.  GET /api/v1/entries answers 200 with a JSON content type; the body *)
(* carries the entries of the requested page and the total count, which is *)
(* the number of entries in the table when it was counted.                 *)
(***************************************************************************)
C8_ApiGetOk ==
    [][\A s \in Slots :
          IsRequest(reqs'[s], "/api/v1/entries", "GET")
          => /\ (reqs[s].pc = "count_entries" /\ reqs'[s].pc # "count_entries")
                => reqs'[s].total_entries = Cardinality(RowSet(store))
             /\ reqs'[s].pc = "done"
                => /\ reqs'[s].status = 200
                   /\ reqs'[s].content_type = "application/json; charset=UTF-8"
                   /\ reqs'[s].total_entries >= 0
                   /\ reqs'[s].total_entries <= Cardinality(RowSet(store'))
                   /\ (reqs[s].pc = "get_entries"
                       => /\ reqs'[s].total_entries = reqs[s].total_entries
                          /\ Len(reqs'[s].entries) =
                                Min(5, Max(0, Len(store) - (reqs[s].page - 1) * 5))
                          /\ \A i \in 1 .. Len(reqs'[s].entries) :
                                reqs'[s].entries[i] \in RowSet(store))]_vars

C8_Witness ==
    \E s \in Slots :
        /\ IsRequest(reqs[s], "/api/v1/entries", "GET")
        /\ reqs[s].status = 200
        /\ reqs[s].total_entries = 2
        /\ Len(reqs[s].entries) = 2

(***************************************************************************)
(* C9.  A form POST to /guestbook is answered with a redirect to           *)
(* /guestbook only after add_entry has succeeded, adding exactly one entry *)
(* (the posted one); when add_entry fails or a form field is missing there *)
(* is no redirect, the status is an error (500 for a database error, 400   *)
(* for a missing field) and the request leaves the table unchanged.        *)
(***************************************************************************)
C9_RedirectOnlyAfterInsert ==
    [][\A s \in Slots :
          (IsRequest(reqs'[s], "/guestbook", "POST") /\ reqs'[s] # reqs[s])
          => LET r == reqs[s]
                 q == reqs'[s]
             IN  /\ q.pc \in {"add_entry", "redirect", "done"}
                 /\ q.pc = "add_entry" => (~LacksField(q) /\ store' = store)
                 /\ q.pc = "redirect"
                    => /\ r.pc = "add_entry"
                       /\ Len(store') = Len(store) + 1
                       /\ SubSeq(store', 1, Len(store)) = store
                       /\ SameContent(store'[Len(store')], q.body)
                 /\ q.pc = "done"
                    => /\ store' = store
                       /\ q.status \in {302, 400, 500}
                       /\ q.status = 302 <=> r.pc = "redirect"
                       /\ q.status = 302 => q.location = "/guestbook"
                       /\ q.status = 500 <=> r.pc = "add_entry"
                       /\ q.status = 400 <=> LacksField(q)
                       /\ q.status # 302 => q.location = ""]_vars

C9_Witness ==
    /\ \E s \in Slots :
          /\ IsRequest(reqs[s], "/guestbook", "POST")
          /\ reqs[s].status = 302
          /\ Len(store) = 1
    /\ \E s \in Slots :
          /\ IsRequest(reqs[s], "/guestbook", "POST")
          /\ reqs[s].status = 500

(***************************************************************************)
(* C10.  The total_entries and the entries rendered by one GET /guestbook  *)
(* describe the same table: whenever get_entries runs for the request, the *)
(* total it counted equals the number of rows the table then holds.        *)
(***************************************************************************)
C10_TotalMatchesEntries ==
    [][\A s \in Slots :
          (/\ IsRequest(reqs[s], "/guestbook", "GET")
           /\ reqs[s].pc = "get_entries"
           /\ reqs'[s].pc = "done")
          => reqs[s].total_entries = Len(store)]_vars

(***************************************************************************)
(* Properties of one request at a time (SpecSeq).  There the request in    *)
(* slot 1 is the only one: while a GET is handled the table does not       *)
(* change, and the newest row was inserted by a POST that was answered     *)
(* (201 or redirect) before the GET began.                                 *)
(***************************************************************************)
IsListing(r) ==
    /\ r.pc = "done"
    /\ r.method = "GET"
    /\ r.path \in {"/guestbook", "/api/v1/entries"}
    /\ r.status = 200

(***************************************************************************)
(* C2.  After a POST with name, email and message was answered 201 or with *)
(* a redirect, every GET of page 1 that starts after that response and     *)
(* before any further insert returns the posted name, email and message    *)
(* among its entries.                                                      *)
(***************************************************************************)
C2_PostedEntryVisible ==
    (IsListing(reqs[1]) /\ reqs[1].page = 1 /\ store # <<>>)
    => \E i \in 1 .. Len(reqs[1].entries) :
          LET e == reqs[1].entries[i]
              posted == store[Len(store)]
          IN  e.name = posted.name /\ e.email = posted.email /\ e.message = posted.message

(***************************************************************************)
(* C5.  For every page >= 1 and every table, get_entries(page) returns the *)
(* rows at positions (page-1)*5+1 .. (page-1)*5+5 of the table sorted by   *)
(* posted descending: min(5, max(0, N-(page-1)*5)) rows, never more than   *)
(* 5, none beyond the data; the i-th returned row is a row of the table,   *)
(* no row is returned twice, at most (page-1)*5+i-1 rows are newer than it *)
(* and at least (page-1)*5+i rows are not older.                           *)
(***************************************************************************)
C5_PageIsSliceOfSortedStore ==
    returned.page >= 1
    => LET es == returned.entries
           n == Len(store)
           offset == (returned.page - 1) * 5
       IN  /\ Len(es) <= 5
           /\ Len(es) = Min(5, Max(0, n - offset))
           /\ offset >= n => es = <<>>
           /\ \A i \in 1 .. Len(es) :
                 /\ es[i] \in RowSet(store)
                 /\ PostedAfter(es[i].posted) <= offset + i - 1
                 /\ PostedNotBefore(es[i].posted) >= offset + i
                 /\ \A j \in 1 .. Len(es) : i # j => es[i].id # es[j].id

C5_Witness ==
    /\ returned.page = 2
    /\ Len(store) = 6
    /\ Len(returned.entries) = 1
    /\ \E i \in 1 .. 6 : store[i].posted # returned.entries[1].posted

(***************************************************************************)
(* C7 as stated.  In every list returned by get_entries each entry's       *)
(* posted is strictly greater than that of the entry after it, also when   *)
(* two entries were inserted with the same timestamp.                      *)
(***************************************************************************)
C7_StrictlyDescending ==
    returned.page >= 1
    => \A i \in 1 .. Len(returned.entries) - 1 :
          returned.entries[i].posted > returned.entries[i + 1].posted

(***************************************************************************)
(* C7 amended.  In every list returned by get_entries no entry's posted is *)
(* less than that of the entry after it: descending, and strictly so       *)
(* between entries whose timestamps differ.                                *)
(***************************************************************************)
C7_Descending ==
    returned.page >= 1
    => \A i \in 1 .. Len(returned.entries) - 1 :
          returned.entries[i].posted >= returned.entries[i + 1].posted

C7_Witness ==
    /\ returned.page = 1
    /\ \E i \in 1 .. Len(returned.entries) - 1 :
          returned.entries[i].posted = returned.entries[i + 1].posted
    /\ \E i \in 1 .. Len(returned.entries) - 1 :
          returned.entries[i].posted > returned.entries[i + 1].posted

=============================================================================
